---- MODULE Spec2Model ----
(***************************************************************************)
(* Model of src/app_top_pages.py: the Search Console fetcher, the          *)
(* week-over-week comparator (identify_top_pages), the insight generator   *)
(* (generate_page_insights) and the Streamlit script that drives them.     *)
(*                                                                         *)
(* Pages are the integers 1..MaxPages, standing for page URLs in their     *)
(* lexicographic order (the order pandas' outer merge sorts keys in).      *)
(* Positions are integers (the unit is one tenth of a rank).               *)
(* pandas is modelled as of the 1.x/2.x series, where fillna(0) turns an   *)
(* all-NaN object column into a numeric one.                               *)
(***************************************************************************)
EXTENDS Integers, Sequences, FiniteSets, TLC

\* ---------------------------------------------------------------- bounds
MaxPages == 9
MaxClicks == 4
MaxPos == 3
MaxClickPat == 2
MaxPosPat == 1
MaxDate == 2

\* ------------------------------------------------------ program constants
K == 8

\* NaN: the missing value pandas puts in the cells of an outer merge that
\* have no counterpart. Absent: a key a response row does not carry.
NaN == -1
Absent == -2

Pages == 1..MaxPages
Dates == 1..MaxDate

Min(a, b) == IF a <= b THEN a ELSE b

VARIABLES
    pc,                      \* position of the script run
    search_console_service,  \* "None" or "service"
    prev_week_start, prev_week_end, curr_week_start, curr_week_end,
    button,                  \* st.sidebar.button("Fetch Insights")
    old_data, new_data,      \* the two fetched DataFrames
    fetch_failed,            \* periods whose upstream query raised in this run
    api_calls,               \* upstream queries issued in this run, in order
    merged_df, top_improved, top_dropped,
    insights_improved, insights_dropped,
    raised,                  \* uncaught exception of this run, or "none"
    ui                       \* messages and widgets rendered in this run, in order

vars == <<pc, search_console_service, prev_week_start, prev_week_end,
          curr_week_start, curr_week_end, button, old_data, new_data,
          fetch_failed, api_calls, merged_df, top_improved, top_dropped,
          insights_improved, insights_dropped, raised, ui>>

\* ------------------------------------------------------------ DataFrames
\* A DataFrame is its column labels and its rows. pd.DataFrame([]) has no
\* columns; pd.DataFrame(columns=[...]) has columns and no rows.
ColumnsPCP == <<"Page", "Clicks", "Position">>

DataFrame(columns, rows) == [columns |-> columns, rows |-> rows]

HasColumn(df, c) == \E i \in DOMAIN df.columns : df.columns[i] = c

\* DataFrame.empty: any axis of length 0
Empty(df) == Len(df.rows) = 0 \/ Len(df.columns) = 0

\* ------------------------------------------------------- upstream responses
\* A response of searchanalytics().query(...).execute(): it raises, or it is
\* a dict that may carry 'rows'. A row carries 'keys' and may carry 'clicks'
\* and 'position'.
ApiRow(keys, clicks, position) == [keys |-> keys, clicks |-> clicks, position |-> position]

Response(raises, has_rows, rows) == [raises |-> raises, has_rows |-> has_rows, rows |-> rows]

ClickOf(c, page) == IF c = 0 THEN Absent ELSE (c * page) % (MaxClicks + 1)

PosOf(p, page) == IF p = 0 THEN Absent ELSE (p + page) % (MaxPos + 1)

\* rows for the pages lo..hi, clicks and positions following pattern c and p
Gen(lo, hi, c, p) ==
    [i \in 1..(hi - lo + 1) |-> ApiRow(<<lo + i - 1>>, ClickOf(c, lo + i - 1), PosOf(p, lo + i - 1))]

\* dict.get(key, default)
Get(v, default) == IF v = Absent THEN default ELSE v


\* ---------------------------------------------------- fetch_search_console_data
\* row['keys'][0] raises when the row carries no key
Malformed(rows) == \E i \in DOMAIN rows : Len(rows[i].keys) = 0

\* the list comprehension of lines 18-22
FrameRows(rows) ==
    [i \in DOMAIN rows |-> [Page |-> rows[i].keys[1],
                            Clicks |-> Get(rows[i].clicks, 0),
                            Position |-> Get(rows[i].position, 0)]]

\* pd.DataFrame(list of dicts): the columns are the dicts' keys, none for []
FrameOf(rows) == DataFrame(IF Len(rows) = 0 THEN <<>> ELSE ColumnsPCP, FrameRows(rows))

\* whether anything inside the try block raises
FetchRaises(response) ==
    response.raises \/ (response.has_rows /\ Malformed(response.rows))

\* what the except branch does: whether it calls st.error, and what it returns
ExceptReportedMute(response) == [reported |-> FALSE, df |-> DataFrame(ColumnsPCP, <<>>)]

ExceptBranch(response) == [reported |-> TRUE, df |-> DataFrame(ColumnsPCP, <<>>)]

\* the fetcher: [failed, reported, df]
fetch_search_console_data(response) ==
    IF FetchRaises(response)
    THEN [failed |-> TRUE] @@ ExceptBranch(response)
    ELSE [failed |-> FALSE, reported |-> FALSE,
          df |-> FrameOf(IF response.has_rows THEN response.rows ELSE <<>>)]

\* ------------------------------------------------------------ pd.merge
Keys(df) == {df.rows[i].Page : i \in DOMAIN df.rows}

UniquePages(df) == \A i, j \in DOMAIN df.rows : df.rows[i].Page = df.rows[j].Page => i = j

RECURSIVE SortedKeys(_)
SortedKeys(S) ==
    IF S = {} THEN <<>>
    ELSE LET m == CHOOSE x \in S : \A y \in S : x <= y
         IN <<m>> \o SortedKeys(S \ {m})

RowsFor(df, k) == SelectSeq(df.rows, LAMBDA r : r.Page = k)

MergedRow(k, co, po, cn, pn) ==
    [Page |-> k, Clicks_old |-> co, Position_old |-> po,
     Clicks_new |-> cn, Position_new |-> pn]

\* the rows of the outer merge that carry key k: left rows x right rows, or
\* the rows of the one side that has the key with NaN for the other side
MergeKey(df_old, df_new, k) ==
    LET L == RowsFor(df_old, k)
        R == RowsFor(df_new, k)
    IN IF Len(L) = 0
       THEN [i \in DOMAIN R |-> MergedRow(k, NaN, NaN, R[i].Clicks, R[i].Position)]
       ELSE IF Len(R) = 0
       THEN [i \in DOMAIN L |-> MergedRow(k, L[i].Clicks, L[i].Position, NaN, NaN)]
       ELSE [i \in 1..(Len(L) * Len(R)) |->
                LET l == L[((i - 1) \div Len(R)) + 1]
                    r == R[((i - 1) % Len(R)) + 1]
                IN MergedRow(k, l.Clicks, l.Position, r.Clicks, r.Position)]

RECURSIVE MergeKeys(_, _, _)
MergeKeys(df_old, df_new, ks) ==
    IF Len(ks) = 0 THEN <<>>
    ELSE MergeKey(df_old, df_new, Head(ks)) \o MergeKeys(df_old, df_new, Tail(ks))

\* the keys an inner join keeps
JoinKeysInner(df_old, df_new) == Keys(df_old) \cap Keys(df_new)

\* the keys the join keeps: how='outer'
JoinKeys(df_old, df_new) == Keys(df_old) \cup Keys(df_new)

\* pd.merge(df_old, df_new, on='Page', how='outer', suffixes=('_old','_new'))
\* for two frames that both have the 'Page' column
Merge(df_old, df_new) == MergeKeys(df_old, df_new, SortedKeys(JoinKeys(df_old, df_new)))

\* pd.merge raises KeyError('Page') when a frame has no 'Page' column
MergeRaises(df_old, df_new) == ~HasColumn(df_old, "Page") \/ ~HasColumn(df_new, "Page")

\* ------------------------------------------------------------- fillna(0)
Fill(v) == IF v = NaN THEN 0 ELSE v

FillNaNone(rows) == rows

FillNa(rows) ==
    [i \in DOMAIN rows |->
        MergedRow(rows[i].Page, Fill(rows[i].Clicks_old), Fill(rows[i].Position_old),
                  Fill(rows[i].Clicks_new), Fill(rows[i].Position_new))]

\* ------------------------------------------------------ the delta columns
ClickChangeReversed(r) == r.Clicks_old - r.Clicks_new

ClickChange(r) == r.Clicks_new - r.Clicks_old

AvgPosChange(r) == r.Position_new - r.Position_old

WithChanges(rows) ==
    [i \in DOMAIN rows |->
        rows[i] @@ [Click_Change |-> ClickChange(rows[i]),
                    Avg_Pos_Change |-> AvgPosChange(rows[i])]]

\* ------------------------------------------------- nlargest / nsmallest
RemoveAt(s, i) == SubSeq(s, 1, i - 1) \o SubSeq(s, i + 1, Len(s))

\* index of the first row of s with the largest sign * Click_Change
FirstBest(s, sign) ==
    CHOOSE i \in DOMAIN s :
        /\ \A j \in DOMAIN s : sign * s[j].Click_Change <= sign * s[i].Click_Change
        /\ \A j \in 1..(i - 1) : s[j].Click_Change # s[i].Click_Change

\* the n best rows of s, best first, ties in the order of s (keep='first')
RECURSIVE TakeBest(_, _, _)
TakeBest(s, n, sign) ==
    IF n <= 0 \/ Len(s) = 0 THEN <<>>
    ELSE LET i == FirstBest(s, sign)
         IN <<s[i]>> \o TakeBest(RemoveAt(s, i), n - 1, sign)

NLargestShort(n, s) == TakeBest(s, n - 1, 1)

\* DataFrame.nlargest(n, 'Click Change')
NLargest(n, s) == TakeBest(s, n, 1)

\* DataFrame.nsmallest(n, 'Click Change')
NSmallest(n, s) == TakeBest(s, n, -1)

\* ------------------------------------------------- generate_page_insights
\* An insight is the template chosen and the values it prints.
Insight(row, kind, positions) ==
    [Page |-> row.Page, Click_Change |-> row.Click_Change, kind |-> kind,
     positions |-> positions]

ImprovementInsightSwapped(row) ==
    IF row.Click_Change > 0 /\ row.Avg_Pos_Change < 0
    THEN Insight(row, "improved", <<row.Position_old, row.Position_new>>)
    ELSE IF row.Clicks_old = 0 /\ row.Click_Change > 0
    THEN Insight(row, "started", <<row.Position_new>>)
    ELSE Insight(row, "fluctuation", <<>>)

ImprovementInsight(row) ==
    IF row.Clicks_old = 0 /\ row.Click_Change > 0
    THEN Insight(row, "started", <<row.Position_new>>)
    ELSE IF row.Click_Change > 0 /\ row.Avg_Pos_Change < 0
    THEN Insight(row, "improved", <<row.Position_old, row.Position_new>>)
    ELSE Insight(row, "fluctuation", <<>>)

DropInsightLoose(row) ==
    IF row.Click_Change <= 0 /\ row.Avg_Pos_Change > 0
    THEN Insight(row, "decreased", <<row.Position_old, row.Position_new>>)
    ELSE Insight(row, "fluctuation", <<>>)

DropInsight(row) ==
    IF row.Click_Change < 0 /\ row.Avg_Pos_Change > 0
    THEN Insight(row, "decreased", <<row.Position_old, row.Position_new>>)
    ELSE Insight(row, "fluctuation", <<>>)

generate_page_insights(top_pages, is_improvement) ==
    [i \in DOMAIN top_pages |->
        IF is_improvement THEN ImprovementInsight(top_pages[i])
        ELSE DropInsight(top_pages[i])]


\* ----------------------------------------------------- identify_top_pages
NoResult(exc) ==
    [raised |-> exc, merged_df |-> <<>>, top_improved |-> <<>>, top_dropped |-> <<>>]

identify_top_pages(df_old, df_new) ==
    IF MergeRaises(df_old, df_new) THEN NoResult("KeyError")
    ELSE LET m == WithChanges(FillNa(Merge(df_old, df_new)))
         IN [raised |-> "none", merged_df |-> m,
             top_improved |-> NLargest(K, m), top_dropped |-> NSmallest(K, m)]

\* ------------------------------------------------------ the script's checks
\* line 97 / line 99: the range is reported as invalid
DateInvalid(start, end) == start >= end

NoDataBoth(df_old, df_new) == Empty(df_old) /\ Empty(df_new)

\* line 113
NoData(df_old, df_new) == Empty(df_old) \/ Empty(df_new)

\* -------------------------------------------------------- input families
RaisingResponse == Response(TRUE, FALSE, <<>>)

NoRowsResponse == Response(FALSE, FALSE, <<>>)

EmptyRowsResponse == Response(FALSE, TRUE, <<>>)

MalformedResponse == Response(FALSE, TRUE, <<ApiRow(<<>>, 1, 1)>>)

RowsResponse(rows) == Response(FALSE, TRUE, rows)

\* rows with the first page reported twice
Dup(rows) == rows \o <<ApiRow(rows[1].keys, Get(rows[1].clicks, 0) + 1, rows[1].position)>>

SpecialResponses == {RaisingResponse, NoRowsResponse, EmptyRowsResponse, MalformedResponse}

DupResponses ==
    {RowsResponse(Dup(Gen(1, n, c, p))) : n \in 1..2, c \in 0..MaxClickPat, p \in 0..MaxPosPat}

BaselineResponses ==
    SpecialResponses \cup DupResponses \cup
    {RowsResponse(Gen(1, n, c, p)) : n \in Pages, c \in 0..MaxClickPat, p \in 0..MaxPosPat}

CurrentResponses ==
    SpecialResponses \cup DupResponses \cup
    UNION {{RowsResponse(Gen(lo, hi, c, p)) : c \in 0..MaxClickPat, p \in 0..MaxPosPat} :
              lo \in Pages, hi \in Pages}

\* what the upstream may answer to a query of the running script
UIResponses ==
    SpecialResponses \cup
    {RowsResponse(Gen(1, n, c, 1)) : n \in 1..2, c \in 0..MaxClickPat}

NoFrame == DataFrame(<<>>, <<>>)

\* ------------------------------------------------------------------ Init
NoOutputs ==
    /\ fetch_failed = {}
    /\ api_calls = <<>>
    /\ merged_df = <<>>
    /\ top_improved = <<>>
    /\ top_dropped = <<>>
    /\ insights_improved = <<>>
    /\ insights_dropped = <<>>
    /\ raised = "none"
    /\ ui = <<>>

\* the script before its first run
Init ==
    /\ pc = "idle"
    /\ search_console_service = "None"
    /\ prev_week_start = 1 /\ prev_week_end = 1
    /\ curr_week_start = 1 /\ curr_week_end = 1
    /\ button = FALSE
    /\ old_data = NoFrame /\ new_data = NoFrame
    /\ NoOutputs

\* the comparator about to be applied to two fetched tables
InitCompare ==
    /\ pc = "call"
    /\ search_console_service = "service"
    /\ prev_week_start = 1 /\ prev_week_end = 2
    /\ curr_week_start = 1 /\ curr_week_end = 2
    /\ button = TRUE
    /\ old_data \in {fetch_search_console_data(r).df : r \in BaselineResponses}
    /\ new_data \in {fetch_search_console_data(r).df : r \in CurrentResponses}
    /\ NoOutputs

\* --------------------------------------------------------------- actions
inputs == <<search_console_service, prev_week_start, prev_week_end,
            curr_week_start, curr_week_end, button>>

results == <<merged_df, top_improved, top_dropped, insights_improved, insights_dropped>>

\* lines 63-94: a run of the script starts; the widgets deliver the user's input
Rerun ==
    /\ pc \in {"idle", "done"}
    /\ \E uploaded \in {"none", "bad", "good"} :
         /\ search_console_service' = IF uploaded = "good" THEN "service" ELSE "None"
         /\ ui' = <<CASE uploaded = "good" -> "sidebar.success:auth"
                      [] uploaded = "bad" -> "sidebar.error:auth"
                      [] OTHER -> "sidebar.info:upload">>
    /\ prev_week_start' \in Dates /\ prev_week_end' \in Dates
    /\ curr_week_start' \in Dates /\ curr_week_end' \in Dates
    /\ button' \in BOOLEAN
    /\ old_data' = NoFrame /\ new_data' = NoFrame
    /\ fetch_failed' = {} /\ api_calls' = <<>>
    /\ merged_df' = <<>> /\ top_improved' = <<>> /\ top_dropped' = <<>>
    /\ insights_improved' = <<>> /\ insights_dropped' = <<>>
    /\ raised' = "none"
    /\ pc' = "validate"

\* lines 96-100
ValidateDates ==
    /\ pc = "validate"
    /\ ui' = ui \o (IF DateInvalid(prev_week_start, prev_week_end)
                    THEN <<"sidebar.error:prev_dates">> ELSE <<>>)
                \o (IF DateInvalid(curr_week_start, curr_week_end)
                    THEN <<"sidebar.error:curr_dates">> ELSE <<>>)
    /\ pc' = "button"
    /\ UNCHANGED <<inputs, old_data, new_data, fetch_failed, api_calls, results, raised>>

\* line 103, button not pressed
ButtonIdle ==
    /\ pc = "button"
    /\ ~button
    /\ pc' = "done"
    /\ UNCHANGED <<inputs, old_data, new_data, fetch_failed, api_calls, results, raised, ui>>

\* lines 104-105
ButtonNoService ==
    /\ pc = "button"
    /\ button
    /\ search_console_service = "None"
    /\ ui' = Append(ui, "error:upload")
    /\ pc' = "done"
    /\ UNCHANGED <<inputs, old_data, new_data, fetch_failed, api_calls, results, raised>>

\* lines 106-107
ButtonFetch ==
    /\ pc = "button"
    /\ button
    /\ search_console_service # "None"
    /\ ui' = Append(ui, "info:fetching")
    /\ pc' = "fetch_old"
    /\ UNCHANGED <<inputs, old_data, new_data, fetch_failed, api_calls, results, raised>>

Query(period, start, end) == [period |-> period, start |-> start, end |-> end]

\* line 110
FetchOld ==
    /\ pc = "fetch_old"
    /\ \E response \in UIResponses :
         LET r == fetch_search_console_data(response)
         IN /\ old_data' = r.df
            /\ fetch_failed' = IF r.failed THEN fetch_failed \cup {"old"} ELSE fetch_failed
            /\ ui' = IF r.reported THEN Append(ui, "error:fetch_old") ELSE ui
    /\ api_calls' = Append(api_calls, Query("old", prev_week_start, prev_week_end))
    /\ pc' = "fetch_new"
    /\ UNCHANGED <<inputs, new_data, results, raised>>

\* line 111
FetchNew ==
    /\ pc = "fetch_new"
    /\ \E response \in UIResponses :
         LET r == fetch_search_console_data(response)
         IN /\ new_data' = r.df
            /\ fetch_failed' = IF r.failed THEN fetch_failed \cup {"new"} ELSE fetch_failed
            /\ ui' = IF r.reported THEN Append(ui, "error:fetch_new") ELSE ui
    /\ api_calls' = Append(api_calls, Query("new", curr_week_start, curr_week_end))
    /\ pc' = "check"
    /\ UNCHANGED <<inputs, old_data, results, raised>>

\* lines 113-114
NoDataWarning ==
    /\ pc = "check"
    /\ NoData(old_data, new_data)
    /\ ui' = Append(ui, "warning:no_data")
    /\ pc' = "done"
    /\ UNCHANGED <<inputs, old_data, new_data, fetch_failed, api_calls, results, raised>>

\* the effect of a call of identify_top_pages, and of the two tables shown
\* when shown is set
Identify(shown) ==
    LET r == identify_top_pages(old_data, new_data)
    IN /\ raised' = r.raised
       /\ merged_df' = r.merged_df
       /\ top_improved' = r.top_improved
       /\ top_dropped' = r.top_dropped
       /\ IF r.raised # "none"
          THEN pc' = "done" /\ ui' = ui
          ELSE /\ pc' = "insights_improved"
               /\ ui' = ui \o <<"write:merged">> \o
                        (IF shown THEN <<"dataframe:improved", "dataframe:dropped">> ELSE <<>>)
       /\ UNCHANGED <<inputs, old_data, new_data, fetch_failed, api_calls,
                      insights_improved, insights_dropped>>

\* lines 115-123
Compare ==
    /\ pc = "check"
    /\ ~NoData(old_data, new_data)
    /\ Identify(TRUE)

\* identify_top_pages applied to the two tables (lines 27-42)
CallIdentify ==
    /\ pc = "call"
    /\ Identify(FALSE)

\* lines 125-128
InsightsImproved ==
    /\ pc = "insights_improved"
    /\ insights_improved' = generate_page_insights(top_improved, TRUE)
    /\ ui' = Append(ui, "insights:improved")
    /\ pc' = "insights_dropped"
    /\ UNCHANGED <<inputs, old_data, new_data, fetch_failed, api_calls, merged_df,
                   top_improved, top_dropped, insights_dropped, raised>>

\* lines 130-133
InsightsDropped ==
    /\ pc = "insights_dropped"
    /\ insights_dropped' = generate_page_insights(top_dropped, FALSE)
    /\ ui' = Append(ui, "insights:dropped")
    /\ pc' = "done"
    /\ UNCHANGED <<inputs, old_data, new_data, fetch_failed, api_calls, merged_df,
                   top_improved, top_dropped, insights_improved, raised>>

Next ==
    \/ Rerun
    \/ ValidateDates
    \/ ButtonIdle
    \/ ButtonNoService
    \/ ButtonFetch
    \/ FetchOld
    \/ FetchNew
    \/ NoDataWarning
    \/ Compare
    \/ InsightsImproved
    \/ InsightsDropped

\* the running script
Spec == Init /\ [][Next]_vars

NextCompare ==
    \/ CallIdentify
    \/ InsightsImproved
    \/ InsightsDropped

\* the comparator and the insight generator as functions of two fetched tables
SpecCompare == InitCompare /\ [][NextCompare]_vars


\* ------------------------------------------------------------ properties
InUI(e) == \E i \in DOMAIN ui : ui[i] = e

\* identify_top_pages has returned its tables in this run
Built == InUI("write:merged")

Count(s, r) == Cardinality({i \in DOMAIN s : s[i] = r})

CallsFor(period) == Cardinality({i \in DOMAIN api_calls : api_calls[i].period = period})

NoRanking ==
    /\ ~Built
    /\ ~InUI("dataframe:improved") /\ ~InUI("dataframe:dropped")
    /\ ~InUI("insights:improved") /\ ~InUI("insights:dropped")
    /\ top_improved = <<>> /\ top_dropped = <<>>
    /\ insights_improved = <<>> /\ insights_dropped = <<>>

\* ranked is the Min(K, |merged_df|) rows of merged_df that are extreme in
\* sign * Click_Change, most extreme first
RankedOK(ranked, sign) ==
    /\ Len(ranked) = Min(K, Len(merged_df))
    /\ \A i \in DOMAIN ranked : Count(ranked, ranked[i]) <= Count(merged_df, ranked[i])
    /\ \A i, j \in DOMAIN ranked :
          i < j => sign * ranked[i].Click_Change >= sign * ranked[j].Click_Change
    /\ \A i \in DOMAIN merged_df :
          Count(ranked, merged_df[i]) < Count(merged_df, merged_df[i])
             => \A j \in DOMAIN ranked :
                   sign * ranked[j].Click_Change >= sign * merged_df[i].Click_Change

\* C1: when each page occurs at most once in each input table, the combined
\* table that identify_top_pages builds has exactly one row for every page of
\* the union of the two page sets, and no other row.
C1_UnionRowCount ==
    (Built /\ UniquePages(old_data) /\ UniquePages(new_data)) =>
        /\ Len(merged_df) = Cardinality(Keys(old_data) \cup Keys(new_data))
        /\ \A k \in Keys(old_data) \cup Keys(new_data) :
              Cardinality({i \in DOMAIN merged_df : merged_df[i].Page = k}) = 1

\* C1 witness: a combined table of two tables whose page sets overlap without
\* either containing the other
C1_Witness ==
    /\ Built /\ UniquePages(old_data) /\ UniquePages(new_data)
    /\ Keys(old_data) \cap Keys(new_data) # {}
    /\ Keys(old_data) \ Keys(new_data) # {}
    /\ Keys(new_data) \ Keys(old_data) # {}

\* C2: in the combined table a page found only in current has Clicks_old = 0
\* and Position_old = 0, a page found only in baseline has Clicks_new = 0 and
\* Position_new = 0, no cell is left missing, and both deltas are the
\* differences of the filled values.
C2_ZeroFillBeforeDelta ==
    Built =>
        \A i \in DOMAIN merged_df :
            LET r == merged_df[i]
            IN /\ r.Page \notin Keys(old_data) => (r.Clicks_old = 0 /\ r.Position_old = 0)
               /\ r.Page \notin Keys(new_data) => (r.Clicks_new = 0 /\ r.Position_new = 0)
               /\ NaN \notin {r.Clicks_old, r.Position_old, r.Clicks_new, r.Position_new}
               /\ r.Click_Change = r.Clicks_new - r.Clicks_old
               /\ r.Avg_Pos_Change = r.Position_new - r.Position_old

\* C2 witness: a combined table with a page only in current that has clicks
\* and a page only in baseline that has clicks
C2_Witness ==
    /\ Built
    /\ \E i \in DOMAIN merged_df :
          merged_df[i].Page \notin Keys(old_data) /\ merged_df[i].Click_Change > 0
    /\ \E i \in DOMAIN merged_df :
          merged_df[i].Page \notin Keys(new_data) /\ merged_df[i].Click_Change < 0

\* C3: top_improved is the Min(8, |combined|) rows of largest Click_Change in
\* descending order and top_dropped the Min(8, |combined|) rows of smallest
\* Click_Change in ascending order; no row left out is more extreme than a row
\* taken; with fewer than 8 rows both hold every row.
C3_RankedSets ==
    Built => (RankedOK(top_improved, 1) /\ RankedOK(top_dropped, -1))

\* C3 witness: a combined table of more than 8 rows, cut to 8, where a row
\* left out ties with a row taken
C3_Witness ==
    /\ Built
    /\ Len(merged_df) > K
    /\ Len(top_improved) = K
    /\ \E i \in DOMAIN merged_df :
          /\ Count(top_improved, merged_df[i]) = 0
          /\ merged_df[i].Click_Change = top_improved[K].Click_Change

ImprovementKind(row) ==
    IF row.Clicks_old = 0 /\ row.Click_Change > 0 THEN "started"
    ELSE IF row.Click_Change > 0 /\ row.Avg_Pos_Change < 0 THEN "improved"
    ELSE "fluctuation"

\* C4: the improvement insights are one per row of top_improved in its order;
\* a row with Clicks_old = 0 and Click_Change > 0 is "newly ranking" whatever
\* its position change, otherwise Click_Change > 0 with Avg_Pos_Change < 0 is
\* "position improved", otherwise "fluctuation".
C4_ImprovementRules ==
    (Built /\ pc \in {"insights_dropped", "done"}) =>
        /\ Len(insights_improved) = Len(top_improved)
        /\ \A i \in DOMAIN top_improved :
              /\ insights_improved[i].Page = top_improved[i].Page
              /\ insights_improved[i].Click_Change = top_improved[i].Click_Change
              /\ insights_improved[i].kind = ImprovementKind(top_improved[i])

\* C4 witness: insights generated for a row that matches both rules and for a
\* row that matches the second rule only
C4_Witness ==
    /\ Built /\ pc \in {"insights_dropped", "done"}
    /\ \E i \in DOMAIN top_improved :
          /\ top_improved[i].Clicks_old = 0
          /\ top_improved[i].Click_Change > 0
          /\ top_improved[i].Avg_Pos_Change < 0
          /\ insights_improved[i].kind = "started"
    /\ \E i \in DOMAIN top_improved : insights_improved[i].kind = "improved"

\* C5: a row given to the drop generator is "position worsened", reporting the
\* old and the new position, exactly when Click_Change < 0 and
\* Avg_Pos_Change > 0; every other row is "fluctuation".
C5_DropRules ==
    (Built /\ pc = "done") =>
        /\ Len(insights_dropped) = Len(top_dropped)
        /\ \A i \in DOMAIN top_dropped :
              LET row == top_dropped[i]
                  ins == insights_dropped[i]
              IN /\ ins.Page = row.Page
                 /\ ins.kind \in {"decreased", "fluctuation"}
                 /\ ins.kind = "decreased" <=> (row.Click_Change < 0 /\ row.Avg_Pos_Change > 0)
                 /\ ins.kind = "decreased" => ins.positions = <<row.Position_old, row.Position_new>>

\* C5 witness: drop insights for a worsened row and for a row of top_dropped
\* whose Click_Change is zero while its position number rose
C5_Witness ==
    /\ Built /\ pc = "done"
    /\ \E i \in DOMAIN top_dropped : insights_dropped[i].kind = "decreased"
    /\ \E i \in DOMAIN top_dropped :
          /\ top_dropped[i].Click_Change = 0
          /\ top_dropped[i].Avg_Pos_Change > 0
          /\ insights_dropped[i].kind = "fluctuation"

\* C6: once the comparator has been applied to two fetched tables of which
\* exactly one is empty, it has raised nothing and the combined table has the
\* rows of the non-empty side with the other side's cells zero.
C6_ComparatorNeverFails ==
    (pc # "call" /\ Empty(old_data) # Empty(new_data)) =>
        /\ raised = "none"
        /\ Built
        /\ Len(merged_df) = Len(old_data.rows) + Len(new_data.rows)
        /\ \A i \in DOMAIN merged_df :
              IF Empty(old_data)
              THEN merged_df[i].Clicks_old = 0 /\ merged_df[i].Position_old = 0
              ELSE merged_df[i].Clicks_new = 0 /\ merged_df[i].Position_new = 0

\* C7: in a run whose baseline or current range does not start before it
\* ends, once the dates are validated the error is shown, no fetch is issued
\* and no comparison is made.
C7_InvalidDatesTerminal ==
    (pc \notin {"idle", "validate"}
       /\ (DateInvalid(prev_week_start, prev_week_end)
             \/ DateInvalid(curr_week_start, curr_week_end))) =>
        /\ InUI("sidebar.error:prev_dates") \/ InUI("sidebar.error:curr_dates")
        /\ api_calls = <<>>
        /\ NoRanking

TableOf(period) == IF period = "old" THEN old_data ELSE new_data

\* C8: a fetch that raised in this run showed an error, returned an empty
\* table and let the run go on; it was issued once; the run produces no
\* ranked table and no insight and ends with the no-data warning, after which
\* a new run can start.
C8_FetchFailureDegrades ==
    \A period \in fetch_failed :
        /\ InUI("error:fetch_" \o period)
        /\ Empty(TableOf(period))
        /\ raised = "none"
        /\ CallsFor(period) = 1
        /\ NoRanking
        /\ pc \in {"fetch_new", "check", "done"}
        /\ pc = "done" => (InUI("warning:no_data") /\ ENABLED Rerun)

\* C8 witness: a finished run whose baseline fetch raised while the current
\* fetch returned rows
C8_Witness ==
    /\ pc = "done"
    /\ fetch_failed = {"old"}
    /\ ~Empty(new_data)

C10_CompareOnlyWhenBothNonEmpty ==
    /\ (Built \/ raised # "none") => (~Empty(old_data) /\ ~Empty(new_data))
    /\ (pc = "done" /\ api_calls # <<>> /\ (Empty(old_data) \/ Empty(new_data)))
          => (InUI("warning:no_data") /\ NoRanking)
    /\ (pc = "check" \/ InUI("warning:no_data") \/ Built) =>
          /\ Len(api_calls) = 2
          /\ api_calls[1] = Query("old", prev_week_start, prev_week_end)
          /\ api_calls[2] = Query("new", curr_week_start, curr_week_end)
    /\ (pc = "done" /\ "old" \in fetch_failed) => CallsFor("new") = 1

\* C10 witness: a finished run in which only the current table is empty, and
\* the fetch of it did not fail
C10_Witness ==
    /\ pc = "done"
    /\ ~Empty(old_data) /\ Empty(new_data)
    /\ fetch_failed = {}
    /\ InUI("warning:no_data")

====
